---------------------------- MODULE Spec2Model ----------------------------
(***************************************************************************)
(* Model of MediaOwnershipExtractor (src/build.py): the entity registry    *)
(* (owners, entities), the relationship list, the networkx DiGraph, the    *)
(* ingestion of owner pages, the indirect-ownership pass and the network   *)
(* returned by build_network.                                              *)
(*                                                                         *)
(* Strings are sequences of one-character strings.  Percentages are exact  *)
(* fixed-point numbers: a value v stands for v / Scale percent, so the     *)
(* float products of the code are computed without rounding.               *)
(***************************************************************************)
EXTENDS Integers, Sequences, FiniteSets, TLC

VARIABLES owners, entities, relationships, graph, log, pc, files, arg, ret,
          network, walk

vars == <<owners, entities, relationships, graph, log, pc, files, arg, ret,
          network, walk>>

---------------------------------------------------------------------------
(* Generic helpers *)

Range(s) == {s[i] : i \in 1..Len(s)}

SeqsUpTo(S, n) == UNION {[1..k -> S] : k \in 0..n}

---------------------------------------------------------------------------
(* sanitize_id: src/build.py 482-496 *)

UPPER == <<"A","B","C","D","E","F","G","H","I","J","K","L","M",
           "N","O","P","Q","R","S","T","U","V","W","X","Y","Z">>
LOWER == <<"a","b","c","d","e","f","g","h","i","j","k","l","m",
           "n","o","p","q","r","s","t","u","v","w","x","y","z">>
DIGIT == <<"0","1","2","3","4","5","6","7","8","9">>

\* Python's None, distinct from every string (strings hold single characters).
None == <<"None">>

unknown == <<"u","n","k","n","o","w","n">>

UpperChars == Range(UPPER)
DigitChars == Range(DIGIT)
AlnumChars == Range(UPPER) \cup Range(LOWER) \cup Range(DIGIT)

\* the character class [a-zA-Z0-9] of line 488
IsAlnum(c) == c \in AlnumChars

\* re.sub(r'[^a-zA-Z0-9]', '_', name), line 488
sub_non_alnum(s) == [i \in 1..Len(s) |-> IF IsAlnum(s[i]) THEN s[i] ELSE "_"]

\* str.lower(), line 490
lower_char(c) ==
    IF c \in UpperChars
    THEN LOWER[CHOOSE i \in 1..Len(UPPER) : UPPER[i] = c]
    ELSE c

lower(s) == [i \in 1..Len(s) |-> lower_char(s[i])]

\* re.sub(r'_+', '_', sanitized), line 492
RECURSIVE collapse_underscores(_)
collapse_underscores(s) ==
    IF Len(s) <= 1 THEN s
    ELSE IF s[1] = "_" /\ s[2] = "_" THEN collapse_underscores(Tail(s))
    ELSE <<s[1]>> \o collapse_underscores(Tail(s))

\* str.strip('_'), line 494
RECURSIVE lstrip_underscores(_)
lstrip_underscores(s) ==
    IF s # <<>> /\ s[1] = "_" THEN lstrip_underscores(Tail(s)) ELSE s

RECURSIVE rstrip_underscores(_)
rstrip_underscores(s) ==
    IF s # <<>> /\ s[Len(s)] = "_"
    THEN rstrip_underscores(SubSeq(s, 1, Len(s) - 1))
    ELSE s

\* strip_underscores with a seeded fault: lstrip('_') for strip('_')
strip_leading_only(s) == lstrip_underscores(s)

strip_underscores(s) == rstrip_underscores(lstrip_underscores(s))

sanitize_id(name) ==
    IF name = None \/ name = <<>>
    THEN unknown
    ELSE strip_underscores(collapse_underscores(lower(sub_non_alnum(name))))

---------------------------------------------------------------------------
(* The containers of __init__ (src/build.py 20-25).                        *)
(* owners and entities are Python dicts: modelled by their keys in         *)
(* insertion order (the values - name, description, image_url, type - are  *)
(* never read by ingestion or by the indirect-ownership pass).             *)
(* graph is a networkx DiGraph: a node set and at most ONE edge per        *)
(* ordered pair, whose attribute dict is updated in place by add_edge.     *)
(* Descriptions are formatted texts derived from the other fields and are  *)
(* left out.                                                               *)

\* fixed-point unit: v stands for v / Scale percent
Scale == 10000

Pct(p) == p * Scale

EmptyGraph == [nodes |-> {}, edges |-> <<>>]

\* d[key] = value on a dict: a new key goes last, an existing key keeps its place
dict_set(keys, k) == IF k \in Range(keys) THEN keys ELSE Append(keys, k)

\* nx.DiGraph.add_node
add_node(g, n) == [g EXCEPT !.nodes = @ \cup {n}]

has_edge(g, u, v) == <<u, v>> \in DOMAIN g.edges

\* nx.DiGraph.add_edge(u, v, **attr): creates missing nodes; an existing edge
\* keeps its attribute dict, which is updated with attr (attr wins).
add_edge(g, u, v, attr) ==
    LET old == IF has_edge(g, u, v) THEN g.edges[<<u, v>>] ELSE <<>>
        e   == <<u, v>>
    IN [nodes |-> g.nodes \cup {u, v},
        edges |-> [p \in DOMAIN g.edges \cup {e} |->
                      IF p = e THEN attr @@ old ELSE g.edges[p]]]

\* d.get(key, default) on an edge attribute dict
attr_get(d, key, default) == IF key \in DOMAIN d THEN d[key] ELSE default

---------------------------------------------------------------------------
(* Ingestion.  An operation takes the extractor state                      *)
(*   st = [owners, entities, relationships, graph]                         *)
(* and returns the state it leaves.                                        *)

UnknownCompany == <<"U","n","k","n","o","w","n"," ","C","o","m","p","a","n","y">>
UnknownOutlet  == <<"U","n","k","n","o","w","n"," ","O","u","t","l","e","t">>

\* percentage_div.text.strip().replace('%', ''), lines 174, 268
NotPercentSign(c) == c # "%"

percentage_text_of(text) == SelectSeq(text, NotPercentSign)

\* float(percentage_text): the decimal value of a text of digits; every other
\* text of the model raises ValueError (lines 175-178, 269-272)
IsNumeric(text) == text # <<>> /\ \A i \in 1..Len(text) : text[i] \in DigitChars

digit_value(c) == (CHOOSE i \in 1..Len(DIGIT) : DIGIT[i] = c) - 1

RECURSIVE float_of(_)
float_of(text) ==
    IF text = <<>> THEN 0
    ELSE 10 * float_of(SubSeq(text, 1, Len(text) - 1)) + digit_value(text[Len(text)])

\* lines 170-178: 0 without a percentage div or on ValueError
ownership_percentage_of(div) ==
    IF div.percentage = None THEN 0
    ELSE LET percentage_text == percentage_text_of(div.percentage)
         IN IF IsNumeric(percentage_text)
            THEN Pct(float_of(percentage_text))
            ELSE 0

\* lines 155-215
process_media_company(st, company_div, owner_id) ==
    IF ~company_div.has_link THEN st
    ELSE
    LET company_name == IF company_div.name = None THEN UnknownCompany
                        ELSE company_div.name
        company_id == sanitize_id(company_name)
        ownership_percentage == ownership_percentage_of(company_div)
        relationship == [source_id |-> owner_id, target_id |-> company_id,
                         type |-> "owns", percentage |-> ownership_percentage]
    IN [owners |-> st.owners,
        entities |-> dict_set(st.entities, company_id),
        relationships |-> Append(st.relationships, relationship),
        graph |-> add_edge(add_node(st.graph, company_id), owner_id, company_id,
                           [type |-> "owns", percentage |-> ownership_percentage])]

\* lines 245-311
process_media_outlet(st, outlet_div, owner_id) ==
    IF ~outlet_div.has_link THEN st
    ELSE
    LET outlet_name == IF outlet_div.name = None THEN UnknownOutlet
                       ELSE outlet_div.name
        outlet_id == sanitize_id(outlet_name)
        ownership_percentage == ownership_percentage_of(outlet_div)
        relationship == [source_id |-> owner_id, target_id |-> outlet_id,
                         type |-> "owns", percentage |-> ownership_percentage]
    IN [owners |-> st.owners,
        entities |-> dict_set(st.entities, outlet_id),
        relationships |-> Append(st.relationships, relationship),
        graph |-> add_edge(add_node(st.graph, outlet_id), owner_id, outlet_id,
                           [type |-> "owns", percentage |-> ownership_percentage])]

\* lines 147-150: every 'teaser company' div of the page, in document order
RECURSIVE process_companies(_, _, _)
process_companies(st, divs, owner_id) ==
    IF divs = <<>> THEN st
    ELSE process_companies(process_media_company(st, Head(divs), owner_id),
                           Tail(divs), owner_id)

\* lines 131-153: nothing happens unless the companies heading is followed by
\* a teaser
extract_media_companies(st, page, owner_id) ==
    IF ~page.companies_section THEN st
    ELSE process_companies(st, page.teasers, owner_id)

\* lines 233-240: every 'teaser company' div again, skipping those whose
\* previous element does not mention "Media Outlets"
RECURSIVE process_outlets(_, _, _)
process_outlets(st, divs, owner_id) ==
    IF divs = <<>> THEN st
    ELSE process_outlets(
            IF Head(divs).prev_outlets
            THEN process_media_outlet(st, Head(divs), owner_id)
            ELSE st,
            Tail(divs), owner_id)

\* lines 217-243
extract_media_outlets(st, page, owner_id) ==
    IF ~page.outlets_section THEN st
    ELSE process_outlets(st, page.teasers, owner_id)

\* lines 383-392; a description is modelled by the set of terms it contains
relationship_type_of(description) ==
    IF description \cap {"wife", "husband", "spouse"} # {} THEN "spouse"
    ELSE IF description \cap {"son", "daughter", "child"} # {} THEN "child"
    ELSE IF description \cap {"brother", "sister", "sibling"} # {} THEN "sibling"
    ELSE IF description \cap {"father", "mother", "parent"} # {} THEN "parent"
    ELSE "family_relation"

\* process_family_member with a seeded fault: the new member is not
\* registered (lines 395-408 left out)
process_family_member_unregistered(st, text, owner_id) ==
    LET family_member_id == sanitize_id(text.name)
    IN IF text.name = <<>> \/ Len(text.name) < 3 THEN st
       ELSE IF family_member_id = owner_id THEN st
       ELSE [st EXCEPT
               !.relationships =
                   Append(@, [source_id |-> owner_id,
                              target_id |-> family_member_id,
                              type |-> relationship_type_of(text.description),
                              percentage |-> 0]),
               !.graph = add_edge(@, owner_id, family_member_id,
                                  [type |-> relationship_type_of(text.description)])]

\* lines 349-426; text = [name, description] as split at lines 356-371
process_family_member(st, text, owner_id) ==
    LET family_member_name == text.name
        family_member_id == sanitize_id(family_member_name)
        relationship_type == relationship_type_of(text.description)
        known == family_member_id \in Range(st.owners)
                 \/ family_member_id \in Range(st.entities)
        relationship == [source_id |-> owner_id, target_id |-> family_member_id,
                         type |-> relationship_type, percentage |-> 0]
    IN IF family_member_name = <<>> \/ Len(family_member_name) < 3 THEN st
       ELSE IF family_member_id = owner_id THEN st
       ELSE [owners |-> IF known THEN st.owners
                        ELSE dict_set(st.owners, family_member_id),
             entities |-> st.entities,
             relationships |-> Append(st.relationships, relationship),
             graph |-> add_edge(IF known THEN st.graph
                                ELSE add_node(st.graph, family_member_id),
                                owner_id, family_member_id,
                                [type |-> relationship_type])]

\* lines 329-344: the texts handed to process_family_member, in order
RECURSIVE process_family(_, _, _)
process_family(st, texts, owner_id) ==
    IF texts = <<>> THEN st
    ELSE process_family(process_family_member(st, Head(texts), owner_id),
                        Tail(texts), owner_id)

\* lines 313-347
extract_family_relationships(st, page, owner_id) ==
    process_family(st, page.family, owner_id)

\* process_html_file with a seeded fault: the owner is saved but not added
\* as a node (lines 70-75 left out)
process_html_file_without_node(st, page) ==
    LET owner_id == sanitize_id(page.owner_name)
        st1 == [st EXCEPT !.owners = dict_set(@, owner_id)]
        st2 == extract_media_companies(st1, page, owner_id)
        st3 == extract_media_outlets(st2, page, owner_id)
    IN extract_family_relationships(st3, page, owner_id)

\* lines 47-84
process_html_file(st, page) ==
    LET owner_id == sanitize_id(page.owner_name)
        st1 == [st EXCEPT !.owners = dict_set(@, owner_id),
                          !.graph = add_node(@, owner_id)]
        st2 == extract_media_companies(st1, page, owner_id)
        st3 == extract_media_outlets(st2, page, owner_id)
    IN extract_family_relationships(st3, page, owner_id)

---------------------------------------------------------------------------
(* calculate_indirect_ownership: src/build.py 428-480 *)

\* lines 432-437: the graph of the edges whose type is 'owns'; its nodes are
\* the endpoints of those edges
ownership_graph_of(g) ==
    LET ownership_edges == {p \in DOMAIN g.edges :
                               attr_get(g.edges[p], "type", "None") = "owns"}
    IN [nodes |-> {p[1] : p \in ownership_edges} \cup {p[2] : p \in ownership_edges},
        edges |-> [p \in ownership_edges |->
                      [percentage |-> attr_get(g.edges[p], "percentage", 0)]]]

successors(g, u) == {v \in g.nodes : has_edge(g, u, v)}

\* the nodes reachable from the set S
RECURSIVE reachable_from(_, _)
reachable_from(g, S) ==
    LET T == S \cup UNION {successors(g, u) : u \in S}
    IN IF T = S THEN S ELSE reachable_from(g, T)

\* nx.has_path: raises NodeNotFound when an endpoint is not a node of G
has_path(g, source, target) ==
    IF source \notin g.nodes \/ target \notin g.nodes THEN "NodeNotFound"
    ELSE IF target \in reachable_from(g, {source}) THEN "True"
    ELSE "False"

\* the depth-first search of nx.all_simple_paths: the simple paths that extend
\* visited to target with at most cutoff edges in all
RECURSIVE simple_paths_from(_, _, _, _)
simple_paths_from(g, visited, target, cutoff) ==
    IF Len(visited) - 1 >= cutoff THEN {}
    ELSE UNION {
           IF v = target THEN {Append(visited, v)}
           ELSE IF v \in Range(visited) THEN {}
           ELSE simple_paths_from(g, Append(visited, v), target, cutoff)
           : v \in successors(g, visited[Len(visited)])}

\* all_simple_paths with a seeded fault: the cutoff is one edge too long
all_simple_paths_one_more(g, source, target, cutoff, singleton) ==
    IF source = target
    THEN IF singleton THEN {<<source>>} ELSE {}
    ELSE simple_paths_from(g, <<source>>, target, cutoff + 1)

\* nx.all_simple_paths(G, source, target, cutoff).  For source = target the
\* library yields nothing (networkx 2.4 - 3.1) or the one-node path (3.2 on):
\* singleton says which library the run uses.
all_simple_paths(g, source, target, cutoff, singleton) ==
    IF source = target
    THEN IF singleton THEN {<<source>>} ELSE {}
    ELSE simple_paths_from(g, <<source>>, target, cutoff)

\* lines 454-457, in fixed point: path_percentage * (edge_percentage / 100.0).
\* The percentages of owns edges are whole numbers (float_of), so dividing
\* edge_percentage by Scale first loses nothing; with at most 3 edges the
\* division by 100 is exact too.
RECURSIVE path_percentage_from(_, _, _, _)
path_percentage_from(g, path, i, acc) ==
    IF i > Len(path) - 1 THEN acc
    ELSE LET edge_percentage == g.edges[<<path[i], path[i + 1]>>].percentage
         IN path_percentage_from(g, path, i + 1,
                                 (acc * (edge_percentage \div Scale)) \div 100)

path_percentage_of(g, path) == path_percentage_from(g, path, 1, Pct(100))

\* sum_path_percentages with a seeded fault: '=' for '+=' at line 460
sum_path_percentages_overwritten(g, paths) ==
    IF paths = {} THEN 0
    ELSE path_percentage_of(g, CHOOSE p \in paths : TRUE)

\* lines 451-460
RECURSIVE sum_path_percentages(_, _)
sum_path_percentages(g, paths) ==
    IF paths = {} THEN 0
    ELSE LET path == CHOOSE p \in paths : TRUE
         IN path_percentage_of(g, path) + sum_path_percentages(g, paths \ {path})

CUTOFF == 3

THRESHOLD == Pct(1)

indirect_percentage_of(g, owner_id, entity_id, singleton) ==
    sum_path_percentages(g, all_simple_paths(g, owner_id, entity_id, CUTOFF, singleton))

\* emit_indirect with a seeded fault: '>=' for '>' at line 463
emit_indirect_inclusive(st, owner_id, entity_id, indirect_percentage) ==
    IF indirect_percentage >= THRESHOLD
    THEN [st EXCEPT
            !.graph = add_edge(@, owner_id, entity_id,
                               [type |-> "indirect_owns",
                                percentage |-> indirect_percentage]),
            !.relationships = Append(@, [source_id |-> owner_id,
                                         target_id |-> entity_id,
                                         type |-> "indirect_owns",
                                         percentage |-> indirect_percentage])]
    ELSE st

\* lines 462-478
emit_indirect(st, owner_id, entity_id, indirect_percentage) ==
    IF indirect_percentage > THRESHOLD
    THEN [st EXCEPT
            !.graph = add_edge(@, owner_id, entity_id,
                               [type |-> "indirect_owns",
                                percentage |-> indirect_percentage]),
            !.relationships = Append(@, [source_id |-> owner_id,
                                         target_id |-> entity_id,
                                         type |-> "indirect_owns",
                                         percentage |-> indirect_percentage])]
    ELSE st

\* the (owner, entity) pairs in the order of the loops of lines 440-441
pairs_of(st) ==
    LET m == Len(st.owners)
        n == Len(st.entities)
    IN [k \in 1..(m * n) |->
           <<st.owners[((k - 1) \div n) + 1], st.entities[((k - 1) % n) + 1]>>]

\* lines 440-480: the pairs from the i-th on.  An exception leaves the loops
\* for the handler of line 479, which logs it; r.log holds what was logged.
RECURSIVE indirect_loop(_, _, _, _, _)
indirect_loop(r, ownership_graph, pairs, i, singleton) ==
    IF i > Len(pairs) THEN r
    ELSE
    LET owner_id == pairs[i][1]
        entity_id == pairs[i][2]
    IN IF has_edge(ownership_graph, owner_id, entity_id)
       THEN indirect_loop(r, ownership_graph, pairs, i + 1, singleton)
       ELSE
       LET found == has_path(ownership_graph, owner_id, entity_id)
       IN IF found = "NodeNotFound"
          THEN [r EXCEPT !.log = Append(@, [error |-> "NodeNotFound",
                                            pair |-> pairs[i]])]
          ELSE IF found = "False"
          THEN indirect_loop(r, ownership_graph, pairs, i + 1, singleton)
          ELSE indirect_loop(
                 [r EXCEPT !.st = emit_indirect(@, owner_id, entity_id,
                        indirect_percentage_of(ownership_graph, owner_id,
                                               entity_id, singleton))],
                 ownership_graph, pairs, i + 1, singleton)

calculate_indirect_ownership(st, singleton) ==
    indirect_loop([st |-> st, log |-> <<>>], ownership_graph_of(st.graph),
                  pairs_of(st), 1, singleton)

---------------------------------------------------------------------------
(* The pass of lines 440-478 step by step.  w holds its locals: k, the     *)
(* position in the order of the loops; visited, the path of the depth-     *)
(* first search of all_simple_paths; pending, for each node of visited the *)
(* successors not tried yet; total, indirect_percentage.                   *)

\* walk_child with a seeded fault: a node already on the path is entered again
walk_child_revisiting(w, target, child) ==
    LET top == Len(w.visited)
        rest == [w EXCEPT !.pending[top] = @ \ {child}]
    IN IF child = target
       THEN [rest EXCEPT !.total = @ + path_percentage_of(w.ownership_graph,
                                                          Append(w.visited, child))]
       ELSE IF Len(w.visited) >= CUTOFF THEN rest
       ELSE [rest EXCEPT
               !.visited = Append(@, child),
               !.pending = Append(@, successors(w.ownership_graph, child))]

\* all_simple_paths takes the next successor of the last node of the path:
\* the target ends a path, which is added to the total (lines 454-460); a
\* node of the path is passed over; any other node is entered unless the path
\* has cutoff edges already
walk_child(w, target, child) ==
    LET top == Len(w.visited)
        rest == [w EXCEPT !.pending[top] = @ \ {child}]
    IN IF child = target
       THEN [rest EXCEPT !.total = @ + path_percentage_of(w.ownership_graph,
                                                          Append(w.visited, child))]
       ELSE IF child \in Range(w.visited) THEN rest
       ELSE IF Len(w.visited) >= CUTOFF THEN rest
       ELSE [rest EXCEPT
               !.visited = Append(@, child),
               !.pending = Append(@, successors(w.ownership_graph, child))]

\* all_simple_paths leaves a node whose successors are all tried
walk_return(w) ==
    [w EXCEPT !.visited = SubSeq(@, 1, Len(@) - 1),
              !.pending = SubSeq(@, 1, Len(@) - 1)]

\* the loops move to the next pair
next_pair(w) == [w EXCEPT !.k = @ + 1, !.total = 0]

---------------------------------------------------------------------------
(* build_network: src/build.py 498-513 *)

\* a cell of nx.to_pandas_adjacency(G, weight='percentage'): the attribute of
\* the edge, 1.0 for an edge without that attribute, 0.0 without an edge
adjacency_cell(g, u, v) ==
    IF has_edge(g, u, v)
    THEN attr_get(g.edges[<<u, v>>], "percentage", Pct(1))
    ELSE 0

\* line 504: a square matrix indexed by the nodes of the graph
to_pandas_adjacency(g) ==
    [p \in g.nodes \X g.nodes |-> adjacency_cell(g, p[1], p[2])]

\* build_network with a seeded fault: the indirect rows are left out of the
\* relationship table
build_network_direct_only(st) ==
    [graph |-> st.graph,
     adjacency_matrix |-> to_pandas_adjacency(st.graph),
     relationships |-> SelectSeq(st.relationships,
                                 LAMBDA r : r.type # "indirect_owns"),
     owners |-> st.owners,
     entities |-> st.entities]

\* lines 498-513: pd.DataFrame(list) has one row per element, in list order
build_network(st) ==
    [graph |-> st.graph,
     adjacency_matrix |-> to_pandas_adjacency(st.graph),
     relationships |-> st.relationships,
     owners |-> st.owners,
     entities |-> st.entities]

---------------------------------------------------------------------------
(* Inputs: the owner pages fed to the extractor, and the bounds *)

MaxFiles == 2
MaxTeasers == 2
MaxFamily == 1
MaxRelationships == 4
MaxChainRelationships == 5
MaxNameLen == 4
MaxApplications == 2

Abe == <<"A","b","e">>
Bea == <<"B","e","a">>
Cyd == <<"C","y","d">>
Dee == <<"D","e","e">>
Eve == <<"E","v","e">>

abe == <<"a","b","e">>
bea == <<"b","e","a">>
cyd == <<"c","y","d">>
dee == <<"d","e","e">>
eve == <<"e","v","e">>

NameOrder == <<Abe, Bea, Cyd, Dee, Eve>>

P0  == <<"n","/","a">>
P10 == <<"1","0","%">>
P50 == <<"5","0","%">>
P100 == <<"1","0","0","%">>

\* the 'teaser company' divs of a page
TeaserDivs(T, P, O) ==
    [has_link : {TRUE}, name : T, percentage : P, prev_outlets : O]

\* the pages of owners in N: their teasers name entities in T with the
\* percentage texts P, their family texts name members in F.  A section is
\* found only when a teaser follows its heading.
PagesOf(N, T, P, O, F, D) ==
    [owner_name : N, companies_section : {FALSE}, outlets_section : {FALSE},
     teasers : {<<>>},
     family : SeqsUpTo([name : F, description : D], MaxFamily)]
    \cup
    [owner_name : N, companies_section : {TRUE}, outlets_section : O,
     teasers : SeqsUpTo(TeaserDivs(T, P, O), MaxTeasers) \ {<<>>},
     family : SeqsUpTo([name : F, description : D], MaxFamily)]

\* a directory: for each file, in the order of os.listdir, the pages it may hold

\* any owner page in any order
Directory ==
    [i \in 1..MaxFiles |->
        PagesOf({Abe, Bea}, {Bea, Cyd}, {P50}, BOOLEAN, {Cyd, Dee},
                {{"wife"}})]

\* one file per owner, four owners holding shares in each other
DirectoryPaths ==
    [i \in 1..4 |->
        PagesOf({NameOrder[i]}, {Abe, Bea, Cyd, Dee}, {P50}, {FALSE}, {}, {})]

\* one file per owner, each holding shares in later names only
DirectoryChain ==
    [i \in 1..4 |->
        PagesOf({NameOrder[i]}, {NameOrder[j] : j \in (i + 1)..5}, {P50},
                {FALSE}, {}, {})]

\* one file per owner: two owners holding shares in themselves, in each other
\* and in a third company
DirectoryCycle ==
    [i \in 1..2 |->
        PagesOf({NameOrder[i]}, {Abe, Bea, Cyd}, {P50}, {FALSE}, {}, {})]

\* one file per owner, each holding half or all of later names
DirectorySum ==
    [i \in 1..3 |->
        PagesOf({NameOrder[i]}, {NameOrder[j] : j \in (i + 1)..4}, {P50, P100},
                {FALSE}, {}, {})]

\* one file per owner, percentages around the threshold
DirectoryThreshold ==
    [i \in 1..2 |->
        PagesOf({NameOrder[i]}, {Bea, Cyd}, {P0, P10, P50}, {FALSE}, {}, {})]

SanitizeInputs == SeqsUpTo({"A", "b", "7", "_", " ", "-"}, MaxNameLen) \cup {None}

---------------------------------------------------------------------------
(* The state machine *)

St == [owners |-> owners, entities |-> entities,
       relationships |-> relationships, graph |-> graph]

\* the locals of a pass that has not started
NoWalk == [k |-> 0, visited |-> <<>>, pending |-> <<>>, total |-> 0,
           singleton |-> FALSE, ownership_graph |-> EmptyGraph]

Init ==
    /\ owners = <<>>
    /\ entities = <<>>
    /\ relationships = <<>>
    /\ graph = EmptyGraph
    /\ log = <<>>
    /\ pc = "ingest"
    /\ files = 0
    /\ arg = None
    /\ ret = <<>>
    /\ network = None
    /\ walk = NoWalk

\* the number of records a page carries
RECURSIVE CountOutlets(_)
CountOutlets(divs) ==
    IF divs = <<>> THEN 0
    ELSE (IF Head(divs).prev_outlets THEN 1 ELSE 0) + CountOutlets(Tail(divs))

PageSize(page) ==
    (IF page.companies_section THEN Len(page.teasers) ELSE 0)
    + (IF page.outlets_section THEN CountOutlets(page.teasers) ELSE 0)
    + Len(page.family)

\* extract_all_data, lines 32-40: the next file of the directory; room bounds
\* the length of the relationship list
ProcessHtmlFile(directory, room) ==
    /\ pc = "ingest"
    /\ files < Len(directory)
    /\ \E page \in directory[files + 1] :
          /\ Len(relationships) + PageSize(page) <= room
          /\ \E st \in {process_html_file(St, page)} :
             /\ owners' = st.owners
             /\ entities' = st.entities
             /\ relationships' = st.relationships
             /\ graph' = st.graph
    /\ files' = files + 1
    /\ UNCHANGED <<log, pc, arg, ret, network, walk>>

\* extract_all_data, line 43, once the files are processed
CalculateIndirectOwnership ==
    /\ pc = "ingest"
    /\ \E singleton \in BOOLEAN :
          \E r \in {calculate_indirect_ownership(St, singleton)} :
             /\ owners' = r.st.owners
             /\ entities' = r.st.entities
             /\ relationships' = r.st.relationships
             /\ graph' = r.st.graph
             /\ log' = log \o r.log
    /\ pc' = "done"
    /\ UNCHANGED <<files, arg, ret, network, walk>>

\* extract_all_data, line 45, after the pass
BuildNetwork ==
    /\ pc = "done"
    /\ network' = build_network(St)
    /\ pc' = "built"
    /\ UNCHANGED <<owners, entities, relationships, graph, log, files, arg, ret,
                   walk>>

Next == ProcessHtmlFile(Directory, MaxRelationships) \/ CalculateIndirectOwnership

Spec == Init /\ [][Next]_vars

NextPaths == ProcessHtmlFile(DirectoryPaths, MaxRelationships) \/ CalculateIndirectOwnership

SpecPaths == Init /\ [][NextPaths]_vars

NextChain ==
    ProcessHtmlFile(DirectoryChain, MaxChainRelationships)
    \/ CalculateIndirectOwnership

SpecChain == Init /\ [][NextChain]_vars

NextThreshold ==
    ProcessHtmlFile(DirectoryThreshold, MaxRelationships) \/ CalculateIndirectOwnership

SpecThreshold == Init /\ [][NextThreshold]_vars

NextSum ==
    ProcessHtmlFile(DirectorySum, MaxRelationships) \/ CalculateIndirectOwnership

SpecSum == Init /\ [][NextSum]_vars

\* extract_all_data to its return value
NextNetwork ==
    \/ ProcessHtmlFile(Directory, MaxRelationships)
    \/ CalculateIndirectOwnership
    \/ BuildNetwork

SpecNetwork == Init /\ [][NextNetwork]_vars

\* calculate_indirect_ownership is entered: lines 432-437
BeginPass ==
    /\ pc = "ingest"
    /\ \E singleton \in BOOLEAN :
          walk' = [k |-> 1, visited |-> <<>>, pending |-> <<>>, total |-> 0,
                   singleton |-> singleton,
                   ownership_graph |-> ownership_graph_of(graph)]
    /\ pc' = "pass"
    /\ UNCHANGED <<owners, entities, relationships, graph, log, files, arg, ret,
                   network>>

\* the state and the locals left by lines 462-478 for the pair
Emit(owner_id, entity_id, indirect_percentage) ==
    \E st \in {emit_indirect(St, owner_id, entity_id, indirect_percentage)} :
        /\ relationships' = st.relationships
        /\ graph' = st.graph
        /\ walk' = next_pair(walk)
        /\ UNCHANGED <<owners, entities, log, pc>>

\* lines 440-452: the loops take the next pair, or end
NextPair ==
    /\ pc = "pass"
    /\ walk.visited = <<>>
    /\ IF walk.k > Len(pairs_of(St))
       THEN /\ pc' = "done"
            /\ UNCHANGED <<relationships, graph, log, walk, owners, entities>>
       ELSE
       LET owner_id == pairs_of(St)[walk.k][1]
           entity_id == pairs_of(St)[walk.k][2]
           found == has_path(walk.ownership_graph, owner_id, entity_id)
       IN IF has_edge(walk.ownership_graph, owner_id, entity_id)
             \/ found = "False"
          THEN /\ walk' = next_pair(walk)
               /\ UNCHANGED <<relationships, graph, log, pc, owners, entities>>
          ELSE IF found = "NodeNotFound"
          THEN /\ log' = Append(log, [error |-> "NodeNotFound",
                                      pair |-> pairs_of(St)[walk.k]])
               /\ pc' = "done"
               /\ UNCHANGED <<relationships, graph, walk, owners, entities>>
          ELSE IF owner_id = entity_id
          THEN Emit(owner_id, entity_id,
                    IF walk.singleton THEN Pct(100) ELSE 0)
          ELSE /\ walk' = [walk EXCEPT
                              !.visited = <<owner_id>>,
                              !.pending = <<successors(walk.ownership_graph,
                                                       owner_id)>>]
               /\ UNCHANGED <<relationships, graph, log, pc, owners, entities>>
    /\ UNCHANGED <<files, arg, ret, network>>

\* lines 452-478: one step of the path enumeration for the pair; when the
\* enumeration ends, the total is tested and the relationship emitted
WalkStep ==
    /\ pc = "pass"
    /\ walk.visited # <<>>
    /\ LET top == Len(walk.visited)
           owner_id == pairs_of(St)[walk.k][1]
           entity_id == pairs_of(St)[walk.k][2]
       IN IF walk.pending[top] # {}
          THEN /\ walk' = walk_child(walk, entity_id,
                                     CHOOSE c \in walk.pending[top] : TRUE)
               /\ UNCHANGED <<relationships, graph, log, pc, owners, entities>>
          ELSE IF top > 1
          THEN /\ walk' = walk_return(walk)
               /\ UNCHANGED <<relationships, graph, log, pc, owners, entities>>
          ELSE \E st \in {emit_indirect(St, owner_id, entity_id, walk.total)} :
                  /\ relationships' = st.relationships
                  /\ graph' = st.graph
                  /\ walk' = next_pair(walk_return(walk))
                  /\ UNCHANGED <<owners, entities, log, pc>>
    /\ UNCHANGED <<files, arg, ret, network>>

NextSteps ==
    \/ ProcessHtmlFile(DirectoryCycle, MaxRelationships)
    \/ BeginPass
    \/ NextPair
    \/ WalkStep

\* the pass runs to its end once entered: the interpreter keeps stepping
SpecSteps ==
    Init /\ [][NextSteps]_vars /\ WF_vars(NextPair) /\ WF_vars(WalkStep)

\* sanitize_id applied to a name, and again to its own result
InitSanitize ==
    /\ owners = <<>>
    /\ entities = <<>>
    /\ relationships = <<>>
    /\ graph = EmptyGraph
    /\ log = <<>>
    /\ pc = "sanitize"
    /\ files = 0
    /\ arg \in SanitizeInputs
    /\ ret = <<>>
    /\ network = None
    /\ walk = NoWalk

SanitizeId ==
    /\ pc = "sanitize"
    /\ Len(ret) < MaxApplications
    /\ ret' = Append(ret, sanitize_id(IF ret = <<>> THEN arg ELSE ret[Len(ret)]))
    /\ UNCHANGED <<owners, entities, relationships, graph, log, pc, files, arg,
                   network, walk>>

NextSanitize == SanitizeId

SpecSanitize == InitSanitize /\ [][NextSanitize]_vars

---------------------------------------------------------------------------
(* Reference definitions for the properties *)

\* the ownership-only graph of the current state.  The pass adds indirect_owns
\* edges only, so after the pass this is still the graph the pass worked on.
OG == ownership_graph_of(graph)

predecessors(g, v) == {u \in g.nodes : has_edge(g, u, v)}

\* The summed percentage of the simple paths from o to e that have exactly k
\* edges and avoid the nodes in avoid, computed from the last edge backwards:
\* sum over the predecessors u of e of (that sum for o..u) * percentage(u,e)/100.
RECURSIVE RefExact(_, _, _, _, _), RefOverPreds(_, _, _, _, _, _)
RefExact(g, o, e, k, avoid) ==
    IF k = 0 THEN (IF o = e THEN Pct(100) ELSE 0)
    ELSE IF o = e THEN 0
    ELSE RefOverPreds(g, o, e, k, avoid, predecessors(g, e) \ (avoid \cup {e}))

RefOverPreds(g, o, e, k, avoid, U) ==
    IF U = {} THEN 0
    ELSE LET u == CHOOSE x \in U : TRUE
         IN (RefExact(g, o, u, k - 1, avoid \cup {e})
               * (g.edges[<<u, e>>].percentage \div Scale)) \div 100
            + RefOverPreds(g, o, e, k, avoid, U \ {u})

\* ... with at least lo and at most hi edges
RECURSIVE RefBetween(_, _, _, _, _)
RefBetween(g, o, e, lo, hi) ==
    IF lo > hi THEN 0
    ELSE RefExact(g, o, e, lo, {}) + RefBetween(g, o, e, lo + 1, hi)

\* the nodes within k edges of the nodes of S
RECURSIVE WithinHops(_, _, _)
WithinHops(g, S, k) ==
    IF k = 0 THEN S
    ELSE WithinHops(g, S \cup UNION {successors(g, u) : u \in S}, k - 1)

Connected(g, o, e) ==
    /\ o \in g.nodes
    /\ e \in g.nodes
    /\ e \in WithinHops(g, {o}, Cardinality(g.nodes))

IsIndirect(r, o, e) ==
    r.type = "indirect_owns" /\ r.source_id = o /\ r.target_id = e

IndirectRows(o, e) ==
    {i \in 1..Len(relationships) : IsIndirect(relationships[i], o, e)}

\* the pair has no direct owns edge and its paths of at most 3 edges sum to
\* more than 1.0
Qualifies(o, e) ==
    /\ o # e
    /\ ~has_edge(OG, o, e)
    /\ RefBetween(OG, o, e, 0, 3) > Pct(1)

\* exactly one indirect_owns relationship for the pair, and the graph edge of
\* the pair is an indirect_owns edge with the same percentage
EmittedOnce(o, e) ==
    /\ Cardinality(IndirectRows(o, e)) = 1
    /\ has_edge(graph, o, e)
    /\ graph.edges[<<o, e>>].type = "indirect_owns"
    /\ \A i \in IndirectRows(o, e) :
          graph.edges[<<o, e>>].percentage = relationships[i].percentage

\* the position of the pair in the order of the loops
PairIndex(o, e) ==
    CHOOSE k \in 1..Len(pairs_of(St)) : pairs_of(St)[k] = <<o, e>>

---------------------------------------------------------------------------
(* Properties *)

\* C1: every emitted indirect_owns percentage is the sum, over all simple
\* paths of owns edges from owner to entity with at most 3 edges, of 100 times
\* the product of (edge percentage / 100); each path counts in full.
C1_IndirectIsPathSum ==
    \A i \in 1..Len(relationships) :
        relationships[i].type = "indirect_owns" =>
            relationships[i].percentage =
                RefBetween(OG, relationships[i].source_id,
                           relationships[i].target_id, 0, 3)

\* two disjoint two-edge paths of 50% * 50% each were summed to 50%
C1_Witness ==
    /\ pc = "done"
    /\ \E i \in 1..Len(relationships) :
          /\ IsIndirect(relationships[i], abe, cyd)
          /\ relationships[i].percentage = Pct(50)
          /\ has_edge(OG, abe, bea) /\ has_edge(OG, bea, cyd)
          /\ has_edge(OG, abe, dee) /\ has_edge(OG, dee, cyd)

\* C2: when the pass has finished, every (owner, entity) pair without a direct
\* owns edge whose path sum exceeds 1.0 has exactly one indirect_owns
\* relationship and an indirect_owns graph edge with the same percentage,
\* whatever was ingested (owners that own nothing included).
C2_EveryQualifyingPairEmitted ==
    pc = "done" =>
        \A o \in Range(owners), e \in Range(entities) :
            Qualifies(o, e) => EmittedOnce(o, e)

\* C3: no ordered pair has both a direct owns relationship and an
\* indirect_owns relationship.
C3_NoIndirectBesideDirect ==
    \A i, j \in 1..Len(relationships) :
        ~ /\ relationships[i].type = "owns"
          /\ relationships[j].type = "indirect_owns"
          /\ relationships[i].source_id = relationships[j].source_id
          /\ relationships[i].target_id = relationships[j].target_id

\* C4: an error raised for one pair skips that pair only: every other pair
\* that qualifies, the later ones included, still gets its relationship.
C4_ErrorSkipsOnlyItsPair ==
    (pc = "done" /\ log # <<>>) =>
        \A o \in Range(owners), e \in Range(entities) :
            (<<o, e>> # log[1].pair /\ Qualifies(o, e)) => EmittedOnce(o, e)

\* C5: a pair with no directed path of owns edges (an endpoint that is no node
\* of the ownership-only graph included) gets no indirect_owns relationship,
\* and the pairs after it are still processed.
C5_UnreachableSkippedPassContinues ==
    pc = "done" =>
        \A o \in Range(owners), e \in Range(entities) :
            ~Connected(OG, o, e) =>
                /\ IndirectRows(o, e) = {}
                /\ \A o2 \in Range(owners), e2 \in Range(entities) :
                      (PairIndex(o2, e2) > PairIndex(o, e) /\ Qualifies(o2, e2))
                          => IndirectRows(o2, e2) # {}

\* C6: only simple paths with at most 3 owns edges count: a pair whose
\* shortest connection has 4 or more edges gets no indirect_owns relationship,
\* and an emitted percentage is the sum over all simple paths less the sum
\* over those with more than 3 edges.
C6_LongPathsAddNothing ==
    \A i \in 1..Len(relationships) :
        LET r == relationships[i]
            n == Cardinality(OG.nodes)
        IN r.type = "indirect_owns" =>
              /\ r.target_id \in WithinHops(OG, {r.source_id}, 3)
              /\ r.percentage + RefBetween(OG, r.source_id, r.target_id, 4, n - 1)
                    = RefBetween(OG, r.source_id, r.target_id, 0, n - 1)

\* abe reaches eve through abe->bea->cyd->dee->eve (4 edges) and through
\* abe->dee->eve: only the short path (25%) was counted
C6_Witness ==
    /\ pc = "done"
    /\ log = <<>>
    /\ has_edge(OG, abe, bea) /\ has_edge(OG, bea, cyd)
    /\ has_edge(OG, cyd, dee) /\ has_edge(OG, dee, eve)
    /\ has_edge(OG, abe, dee)
    /\ RefExact(OG, abe, eve, 4, {}) > 0
    /\ \E i \in 1..Len(relationships) :
          /\ IsIndirect(relationships[i], abe, eve)
          /\ relationships[i].percentage = Pct(25)

\* the pair (abe, eve) is connected by a 4-edge path only and got nothing
C6_WitnessLongOnly ==
    /\ pc = "done"
    /\ log = <<>>
    /\ Connected(OG, abe, eve)
    /\ eve \notin WithinHops(OG, {abe}, 3)
    /\ IndirectRows(abe, eve) = {}

\* C7: the threshold is exclusive: a pair whose path sum is at most 1.0
\* (exactly 1.0 and 0 included) gets no indirect_owns relationship and no
\* indirect_owns graph edge.
C7_ThresholdExclusive ==
    \A o \in Range(owners), e \in Range(entities) :
        RefBetween(OG, o, e, 0, 3) <= Pct(1) =>
            /\ IndirectRows(o, e) = {}
            /\ ~(has_edge(graph, o, e)
                 /\ graph.edges[<<o, e>>].type = "indirect_owns")

\* abe owns 10% of bea, bea owns 10% of cyd: the sum for (abe, cyd) is
\* exactly 1.0, the pass went through the pair and emitted nothing
C7_Witness ==
    /\ pc = "done"
    /\ log = <<>>
    /\ abe \in Range(owners) /\ cyd \in Range(entities)
    /\ ~has_edge(OG, abe, cyd)
    /\ Connected(OG, abe, cyd)
    /\ RefBetween(OG, abe, cyd, 0, 3) = Pct(1)
    /\ IndirectRows(abe, cyd) = {}

\* the argument of the i-th application of sanitize_id
Applied(i) == IF i = 1 THEN arg ELSE ret[i - 1]

\* C8: sanitize_id(sanitize_id(x)) = sanitize_id(x) for every string x.
C8_SanitizeIdempotent ==
    Len(ret) >= 2 => ret[2] = ret[1]

\* the maximal runs of [A-Za-z0-9] of s, lower-cased and joined by '_':
\* started says that a run has been written, pending that a separator was
\* read since
RECURSIVE JoinedRuns(_, _, _)
JoinedRuns(s, started, pending) ==
    IF s = <<>> THEN <<>>
    ELSE IF IsAlnum(s[1])
         THEN (IF started /\ pending THEN <<"_">> ELSE <<>>)
              \o <<lower_char(s[1])>> \o JoinedRuns(Tail(s), TRUE, FALSE)
         ELSE JoinedRuns(Tail(s), started, TRUE)

IdChars == Range(LOWER) \cup Range(DIGIT) \cup {"_"}

\* C9: sanitize_id gives "unknown" for empty or missing input; otherwise the
\* runs of [A-Za-z0-9] lower-cased and joined by single '_', so the result
\* holds only [a-z0-9_], neither starts nor ends with '_' and has no '__'.
C9_SanitizeContract ==
    \A i \in 1..Len(ret) :
        LET x == Applied(i)
            y == ret[i]
        IN IF x = None \/ x = <<>>
           THEN y = unknown
           ELSE /\ y = JoinedRuns(x, FALSE, FALSE)
                /\ Range(y) \subseteq IdChars
                /\ y # <<>> => (y[1] # "_" /\ y[Len(y)] # "_")
                /\ \A k \in 1..(Len(y) - 1) : ~(y[k] = "_" /\ y[k + 1] = "_")

\* "A -b" became "a_b"
C9_Witness ==
    /\ arg = <<"A", " ", "-", "b">>
    /\ Len(ret) >= 1
    /\ ret[1] = <<"a", "_", "b">>

\* C10: in every reachable state every relationship's source_id and target_id
\* is a key of owners or of entities.
C10_EndpointsRegistered ==
    \A i \in 1..Len(relationships) :
        /\ relationships[i].source_id \in Range(owners) \cup Range(entities)
        /\ relationships[i].target_id \in Range(owners) \cup Range(entities)

\* a family member known from a family text only is the target of a
\* relationship, and the pass has added an indirect relationship
C10_Witness ==
    /\ pc = "done"
    /\ \E i \in 1..Len(relationships) :
          /\ relationships[i].type = "spouse"
          /\ relationships[i].target_id = dee
          /\ dee \notin Range(entities)
    /\ \E i \in 1..Len(relationships) : relationships[i].type = "indirect_owns"

\* C11: in every reachable state the relationship list holds, for each
\* ordered pair, at most one owns relationship and at most one indirect_owns
\* relationship, also when a teaser is processed by both the company and the
\* outlet extraction of a page or a page lists an entity twice.
C11_AtMostOneOwnershipPerPair ==
    \A i, j \in 1..Len(relationships) :
        ( /\ i # j
          /\ relationships[i].type \in {"owns", "indirect_owns"}
          /\ relationships[i].type = relationships[j].type
          /\ relationships[i].source_id = relationships[j].source_id )
        => relationships[i].target_id # relationships[j].target_id

\* the last relationship of the given type for the pair of relationships[i]
LastOfType(i, type) ==
    CHOOSE j \in i..Len(relationships) :
        /\ relationships[j].type = type
        /\ relationships[j].source_id = relationships[i].source_id
        /\ relationships[j].target_id = relationships[i].target_id
        /\ \A k \in (j + 1)..Len(relationships) :
              ~ /\ relationships[k].type = type
                /\ relationships[k].source_id = relationships[i].source_id
                /\ relationships[k].target_id = relationships[i].target_id

\* C12: the graph keeps the latest edge of each type for a pair: once a pair
\* has an owns relationship, its owns edge with the percentage of the latest
\* owns relationship stays in the graph and is seen by the indirect-ownership
\* pass, whatever edges of other types (family, indirect_owns) are added
\* between the same pair afterwards.
C12_OwnsEdgeKeptBesideOtherTypes ==
    \A i \in 1..Len(relationships) :
        relationships[i].type = "owns" =>
            LET u == relationships[i].source_id
                v == relationships[i].target_id
            IN /\ has_edge(OG, u, v)
               /\ OG.edges[<<u, v>>].percentage
                     = relationships[LastOfType(i, "owns")].percentage

IsPrefix(a, b) == Len(a) <= Len(b) /\ SubSeq(b, 1, Len(a)) = a

\* the relationships a step has appended
Appended == SubSeq(relationships', Len(relationships) + 1, Len(relationships'))

\* C13: the relationship list is append-only: every step keeps the existing
\* relationships in place, ingestion appends direct relationships only, the
\* indirect-ownership pass appends indirect_owns relationships only, and the
\* relationship table of build_network has the rows of the list in list
\* order: the direct relationships first, then the emitted indirect ones.
C13_AppendOnly ==
    [][ /\ IsPrefix(relationships, relationships')
        /\ (pc = "ingest" /\ pc' = "ingest") =>
              \A i \in 1..Len(Appended) : Appended[i].type # "indirect_owns"
        /\ (pc = "ingest" /\ pc' = "done") =>
              \A i \in 1..Len(Appended) : Appended[i].type = "indirect_owns"
        /\ (pc = "done" /\ pc' = "built") =>
              /\ network'.relationships = relationships
              /\ \A i, j \in 1..Len(network'.relationships) :
                    (i < j /\ network'.relationships[i].type = "indirect_owns")
                        => network'.relationships[j].type = "indirect_owns"
      ]_vars

\* a table of direct rows followed by an indirect row has been built
C13_Witness ==
    /\ pc = "built"
    /\ Len(network.relationships) >= 3
    /\ network.relationships[1].type = "owns"
    /\ network.relationships[Len(relationships)].type = "indirect_owns"
    /\ \E i \in 1..Len(relationships) : relationships[i].type = "spouse"

NoRepeat(s) == \A i, j \in 1..Len(s) : i # j => s[i] # s[j]

\* C14: calculate_indirect_ownership terminates on every ownership graph,
\* cycles and self-loops included: once entered the pass reaches its end, the
\* position in the order of the pairs never goes back, and the path being
\* enumerated never holds a node twice nor more than 3 edges.
C14_PassTerminates ==
    /\ [](NoRepeat(walk.visited) /\ Len(walk.visited) <= CUTOFF)
    /\ [][walk'.k >= walk.k]_vars
    /\ (pc = "pass") ~> (pc = "done")

\* the pass has ended on a graph where abe and bea own each other and abe
\* owns itself, after going through the pair (abe, cyd)
C14_Witness ==
    /\ pc = "done"
    /\ log = <<>>
    /\ has_edge(OG, abe, bea) /\ has_edge(OG, bea, abe)
    /\ has_edge(OG, abe, abe) /\ has_edge(OG, bea, cyd)
    /\ IndirectRows(abe, cyd) # {}
    /\ walk.k > Len(pairs_of(St))

\* C15: every relationship of the list, direct or indirect, has a percentage
\* in [0, 100], 0 for the other types, when every stated direct percentage is
\* in [0, 100]; the sum over several paths never exceeds 100.
C15_PercentageInRange ==
    \A i \in 1..Len(relationships) :
        /\ relationships[i].percentage >= 0
        /\ relationships[i].percentage <= Pct(100)
        /\ relationships[i].type \notin {"owns", "indirect_owns"}
              => relationships[i].percentage = 0

\* the relationships from u to v, and the last of them: the one that last
\* wrote the edge (every add_edge follows an append for the same pair)
RowsOf(u, v) ==
    {i \in 1..Len(relationships) :
        relationships[i].source_id = u /\ relationships[i].target_id = v}

LastRow(u, v) == CHOOSE i \in RowsOf(u, v) : \A j \in RowsOf(u, v) : j <= i

\* C16: in the adjacency matrix of build_network the cell (i, j) is the
\* percentage of the relationship that last wrote the edge from i to j (0 for
\* a family relationship) when the edge exists, and zero when it does not.
C16_AdjacencyCellIsEdgePercentage ==
    pc = "built" =>
        \A u, v \in graph.nodes :
            network.adjacency_matrix[<<u, v>>] =
                IF has_edge(graph, u, v) /\ RowsOf(u, v) # {}
                THEN relationships[LastRow(u, v)].percentage
                ELSE 0

\* C17: in every reachable state the nodes of the graph are exactly the keys
\* of owners together with the keys of entities.
C17_NodesAreRegistry ==
    graph.nodes = Range(owners) \cup Range(entities)

\* owners from pages and from a family text, entities from teasers, and an
\* edge added by the pass
C17_Witness ==
    /\ pc = "done"
    /\ Cardinality(graph.nodes) >= 4
    /\ dee \in Range(owners) /\ dee \notin Range(entities)
    /\ \E p \in DOMAIN graph.edges : graph.edges[p].type = "indirect_owns"

\* C18: the pass never emits an indirect_owns relationship from an id to
\* itself, also when the id is a key of both owners and entities and a node
\* of the ownership graph.
C18_NoSelfIndirect ==
    \A i \in 1..Len(relationships) :
        relationships[i].type = "indirect_owns" =>
            relationships[i].source_id # relationships[i].target_id

\* the orders in which the keys of a dict can have been inserted
OrdersOf(keys) ==
    {q \in [1..Len(keys) -> Range(keys)] : Range(q) = Range(keys)}

\* the indirect_owns relationships (pair and percentage) the pass emits on st
EmittedBy(st, singleton) ==
    LET rows == calculate_indirect_ownership(st, singleton).st.relationships
    IN {[source_id |-> rows[i].source_id, target_id |-> rows[i].target_id,
         percentage |-> rows[i].percentage] :
          i \in {j \in 1..Len(rows) : rows[j].type = "indirect_owns"}}

\* C19: the set of indirect_owns relationships the pass emits depends on the
\* owners, the entities and the owns edges only: with the same keys inserted
\* into owners and entities in any other order the pass emits the same set.
C19_InsertionOrderIrrelevant ==
    pc = "ingest" =>
        \A singleton \in BOOLEAN :
            \A o \in OrdersOf(owners), e \in OrdersOf(entities) :
                EmittedBy([St EXCEPT !.owners = o, !.entities = e], singleton)
                    = EmittedBy(St, singleton)

=============================================================================
